---- MODULE Spec2Model ----
(***************************************************************************)
(* Model of src/bq_utils.py: load_parquet_from_gcs and load_csv_from_gcs.  *)
(*                                                                         *)
(* A call is executed step by step; every remote operation (object store:  *)
(* download, upload, delete; warehouse: job submission, job wait, table    *)
(* fetch) is one step that either succeeds or raises.  The steps of the    *)
(* current call are recorded in `calls`; the bucket's objects are `store`. *)
(* Strings that the code inspects or builds (encodings, separators, paths, *)
(* URIs, table ids) are sequences, so that lower-casing and concatenation  *)
(* are computed and not assumed.                                           *)
(***************************************************************************)
EXTENDS Integers, Sequences, FiniteSets, TLC

VARIABLES
    pc,             \* position of the running call
    fn,             \* which function is running: "csv", "parquet", "none"
    args,           \* the arguments of the running call
    encoding,       \* local `encoding` (rebound at line 146)
    temp_blob,      \* local `temp_blob`
    temp_gcs_path,  \* local `temp_gcs_path`
    gcs_uri,        \* local `gcs_uri`
    content,        \* local `content` (downloaded bytes)
    utf8_content,   \* local `utf8_content`
    job_config,     \* local `job_config`
    store,          \* the bucket: object name -> bytes, or Absent
    calls,          \* remote operations performed by the running call
    outcome,        \* running / returned value / raised error
    ncalls          \* number of calls made so far

vars == <<pc, fn, args, encoding, temp_blob, temp_gcs_path, gcs_uri, content,
          utf8_content, job_config, store, calls, outcome, ncalls>>

locals == <<encoding, temp_blob, temp_gcs_path, gcs_uri, content,
            utf8_content, job_config>>

\* Number of successive calls explored in one behaviour.
MaxCalls == 2

-----------------------------------------------------------------------------
(* Optional values: Python's None against a present value. *)

None == [some |-> FALSE, val |-> <<>>]

Some(v) == [some |-> TRUE, val |-> v]

\* Python truthiness of an Optional[str]: None and "" are falsy.
Truthy(x) == x.some /\ x.val # <<>>

-----------------------------------------------------------------------------
(* str.lower() on ASCII text. *)

UpperLetters ==
    <<"A","B","C","D","E","F","G","H","I","J","K","L","M",
      "N","O","P","Q","R","S","T","U","V","W","X","Y","Z">>

LowerLetters ==
    <<"a","b","c","d","e","f","g","h","i","j","k","l","m",
      "n","o","p","q","r","s","t","u","v","w","x","y","z">>

LowerChar(c) ==
    IF \E i \in DOMAIN UpperLetters : UpperLetters[i] = c
    THEN LowerLetters[CHOOSE i \in DOMAIN UpperLetters : UpperLetters[i] = c]
    ELSE c

Lower(s) == [i \in DOMAIN s |-> LowerChar(s[i])]

-----------------------------------------------------------------------------
(* bytes.decode('utf-16le') and str.encode('utf-8'). *)

IsHighSurrogate(u) == u >= 55296 /\ u <= 56319

IsLowSurrogate(u) == u >= 56320 /\ u <= 57343

\* The 16-bit code unit at byte offset i (1-based), little endian.
CodeUnit(b, i) == b[i] + 256 * b[i + 1]

RECURSIVE DecodeFrom(_, _)
\* Code points of b from byte offset i; <<-1>> marks a UnicodeDecodeError.
DecodeFrom(b, i) ==
    IF i > Len(b) THEN <<>>
    ELSE IF i = Len(b) THEN <<-1>>
    ELSE LET u == CodeUnit(b, i) IN
         IF IsLowSurrogate(u) THEN <<-1>>
         ELSE IF IsHighSurrogate(u)
         THEN IF i + 3 > Len(b) THEN <<-1>>
              ELSE LET l == CodeUnit(b, i + 2) IN
                   IF ~IsLowSurrogate(l) THEN <<-1>>
                   ELSE <<65536 + (u - 55296) * 1024 + (l - 56320)>>
                        \o DecodeFrom(b, i + 4)
         ELSE <<u>> \o DecodeFrom(b, i + 2)

DecodeUtf16le(b) ==
    LET t == DecodeFrom(b, 1) IN
    IF \E i \in DOMAIN t : t[i] = -1
    THEN [ok |-> FALSE, text |-> <<>>]
    ELSE [ok |-> TRUE, text |-> t]

Utf8Of(cp) ==
    IF cp < 128 THEN <<cp>>
    ELSE IF cp < 2048 THEN <<192 + (cp \div 64), 128 + (cp % 64)>>
    ELSE IF cp < 65536
    THEN <<224 + (cp \div 4096), 128 + ((cp \div 64) % 64), 128 + (cp % 64)>>
    ELSE <<240 + (cp \div 262144), 128 + ((cp \div 4096) % 64),
           128 + ((cp \div 64) % 64), 128 + (cp % 64)>>

RECURSIVE EncodeUtf8(_)
EncodeUtf8(t) ==
    IF t = <<>> THEN <<>> ELSE Utf8Of(Head(t)) \o EncodeUtf8(Tail(t))

-----------------------------------------------------------------------------
(* The inputs of a call. *)

Str_utf8        == <<"u","t","f","8">>
Str_UTF8        == <<"U","T","F","8">>
Str_utf_8       == <<"u","t","f","-","8">>
Str_iso_8859_1  == <<"i","s","o","-","8","8","5","9","-","1">>
Str_ISO_8859_1  == <<"I","S","O","_","8","8","5","9","_","1">>
Str_latin_1     == <<"l","a","t","i","n","-","1">>
Str_Latin_1     == <<"L","a","t","i","n","-","1">>
Str_utf_16le    == <<"u","t","f","-","1","6","l","e">>
Str_UTF_16LE    == <<"U","T","F","-","1","6","L","E">>
Str_utf_16_le   == <<"u","t","f","-","1","6","-","l","e">>
Str_Utf_16_Le   == <<"U","t","f","-","1","6","-","L","e">>
Str_utf_16      == <<"u","t","f","-","1","6">>
Str_cp1252      == <<"c","p","1","2","5","2">>

\* Values of the `encoding` argument: absent, empty, and strings.
Encodings ==
    {None, Some(<<>>)} \cup
    {Some(s) : s \in {Str_utf8, Str_UTF8, Str_utf_8, Str_iso_8859_1,
                      Str_ISO_8859_1, Str_latin_1, Str_Latin_1, Str_utf_16le,
                      Str_UTF_16LE, Str_utf_16_le, Str_Utf_16_Le, Str_utf_16,
                      Str_cp1252}}

\* Object names (gcs_path) a call may name.
PathF == <<"data/f.csv">>
PathG == <<"data/g.csv">>
Paths == {PathF, PathG}

Absent == <<-1>>

\* "A", e-acute, euro sign in UTF-16LE.
BytesValid == <<65, 0, 233, 0, 172, 32>>

\* Truncated UTF-16LE data: an odd number of bytes.
BytesTruncated == <<65, 0, 66>>

project_id == "proj"
dataset_id == "ds"
bucket_name == "bucket"
table_name == "t"

\* The remaining options of a CSV load, as bundles.
CsvOptions ==
    { [schema |-> FALSE, skip_leading_rows |-> "1",
       write_disposition |-> "WRITE_TRUNCATE", sep |-> None,
       date_format |-> None, datetime_format |-> None],
      [schema |-> FALSE, skip_leading_rows |-> "1",
       write_disposition |-> "WRITE_TRUNCATE", sep |-> Some(<<";">>),
       date_format |-> None, datetime_format |-> None],
      [schema |-> TRUE, skip_leading_rows |-> "0",
       write_disposition |-> "WRITE_APPEND", sep |-> Some(<<"\\", "t">>),
       date_format |-> Some(<<"%d/%m/%Y">>),
       datetime_format |-> Some(<<"%Y-%m-%d %H:%M:%S">>)] }

ParquetOptions ==
    { [schema |-> s, write_disposition |-> w] :
        s \in BOOLEAN, w \in {"WRITE_TRUNCATE", "WRITE_APPEND"} }

\* Errors a remote operation may raise.
RemoteErrors == {"Forbidden", "NotFound"}

Raised(exc, op) == [kind |-> "raised", exc |-> exc, raised_by |-> op, value |-> <<>>]

Returned(v) == [kind |-> "returned", exc |-> "", raised_by |-> "", value |-> v]

Running == [kind |-> "running", exc |-> "", raised_by |-> "", value |-> <<>>]

\* One entry of the record of remote operations.
Call(op, target, ok, exc, cfg) ==
    [op |-> op, target |-> target, ok |-> ok, exc |-> exc, config |-> cfg]

NoConfig ==
    [source_format |-> "unset", write_disposition |-> "unset",
     skip_leading_rows |-> "unset", encoding |-> "unset",
     field_delimiter |-> None, date_format |-> None, datetime_format |-> None,
     schema |-> FALSE, autodetect |-> FALSE]

\* The arguments before any call is made.
NoArgs ==
    [gcs_path |-> <<>>, storage_client |-> FALSE, encoding |-> None,
     schema |-> FALSE, skip_leading_rows |-> "unset",
     write_disposition |-> "unset", sep |-> None, date_format |-> None,
     datetime_format |-> None]

-----------------------------------------------------------------------------
(* Names the functions build. *)

\* f"{project_id}.{dataset_id}.{table_name}"
table_id == <<project_id, ".", dataset_id, ".", table_name>>

\* f"gs://{bucket_name}/{path}"
GcsUri(path) == <<"gs://", bucket_name, "/">> \o path

\* The suffix forgotten: the converted copy is given the source's name.
TempPath_NoSuffix(path) == path

\* f"{gcs_path}.utf8"
TempPath(path) == path \o <<".utf8">>

\* The comparison made without lower-casing.
needs_utf16_conversion_CaseSensitive(enc) ==
    Truthy(enc) /\ enc.val \in {Str_utf_16le, Str_utf_16_le}

\* The test widened to every encoding whose name starts with "utf".
needs_utf16_conversion_AnyUtf(enc) ==
    /\ Truthy(enc)
    /\ Len(enc.val) >= 3
    /\ SubSeq(Lower(enc.val), 1, 3) = <<"u", "t", "f">>

\* encoding and encoding.lower() in ["utf-16le", "utf-16-le"]
needs_utf16_conversion(enc) ==
    Truthy(enc) /\ Lower(enc.val) \in {Str_utf_16le, Str_utf_16_le}

\* The comparisons made without lower-casing.
ConfigEncoding_CaseSensitive(enc) ==
    IF Truthy(enc)
    THEN IF enc.val \in {Str_utf_8, Str_utf8} THEN "UTF_8"
         ELSE IF enc.val \in {Str_latin_1, Str_iso_8859_1}
         THEN "ISO_8859_1"
         ELSE "UTF_8"
    ELSE "unset"

\* The value given to job_config.encoding, "unset" when it is not assigned.
ConfigEncoding(enc) ==
    IF Truthy(enc)
    THEN IF Lower(enc.val) \in {Str_utf_8, Str_utf8} THEN "UTF_8"
         ELSE IF Lower(enc.val) \in {Str_latin_1, Str_iso_8859_1}
         THEN "ISO_8859_1"
         ELSE "UTF_8"
    ELSE "unset"

\* The value given to job_config.field_delimiter, None when not assigned.
ConfigDelimiter(sep) ==
    IF Truthy(sep)
    THEN IF sep.val = <<"\\", "t">> THEN Some(<<"\t">>) ELSE sep
    ELSE None

\* An optional format string is assigned only when truthy.
ConfigFormat(f) == IF Truthy(f) THEN f ELSE None

\* if temp_blob and temp_gcs_path
CleanupNeeded == temp_blob.some /\ Truthy(temp_gcs_path)

-----------------------------------------------------------------------------
(* State. *)

Objects == Paths \cup {TempPath(p) : p \in Paths}

InitStore ==
    [o \in Objects |->
        IF o = PathF THEN BytesValid
        ELSE IF o = PathG THEN BytesTruncated
        ELSE Absent]

Init ==
    /\ pc = "idle"
    /\ fn = "none"
    /\ args = NoArgs
    /\ encoding = None
    /\ temp_blob = None
    /\ temp_gcs_path = None
    /\ gcs_uri = <<>>
    /\ content = <<>>
    /\ utf8_content = <<>>
    /\ job_config = NoConfig
    /\ store = InitStore
    /\ calls = <<>>
    /\ outcome = Running
    /\ ncalls = 0

\* The call ends by raising: nothing after the raising statement runs.
Raise(exc, op) ==
    /\ pc' = "raised"
    /\ outcome' = Raised(exc, op)

Record(c) == calls' = Append(calls, c)

-----------------------------------------------------------------------------
(* load_csv_from_gcs *)

\* The caller calls load_csv_from_gcs; lines 113-119.
CallCsv ==
    /\ pc \in {"idle", "returned", "raised"}
    /\ ncalls < MaxCalls
    /\ \E p \in Paths, e \in Encodings, c \in BOOLEAN, o \in CsvOptions :
          args' = [gcs_path |-> p, storage_client |-> c, encoding |-> e,
                   schema |-> o.schema,
                   skip_leading_rows |-> o.skip_leading_rows,
                   write_disposition |-> o.write_disposition,
                   sep |-> o.sep, date_format |-> o.date_format,
                   datetime_format |-> o.datetime_format]
    /\ encoding' = args'.encoding
    /\ fn' = "csv"
    /\ temp_blob' = None
    /\ temp_gcs_path' = None
    /\ gcs_uri' = <<>>
    /\ content' = <<>>
    /\ utf8_content' = <<>>
    /\ job_config' = NoConfig
    /\ calls' = <<>>
    /\ outcome' = Running
    /\ ncalls' = ncalls + 1
    /\ pc' = "csv_branch"
    /\ UNCHANGED store

\* The check of storage_client left out: storage_client.bucket fails on None.
CsvBranch_NoClientCheck ==
    /\ pc = "csv_branch"
    /\ IF needs_utf16_conversion(encoding)
       THEN IF ~args.storage_client
            THEN /\ Raise("AttributeError", "bucket")
                 /\ UNCHANGED gcs_uri
            ELSE /\ pc' = "csv_download"
                 /\ UNCHANGED <<outcome, gcs_uri>>
       ELSE /\ gcs_uri' = GcsUri(args.gcs_path)
            /\ pc' = "csv_config"
            /\ UNCHANGED outcome
    /\ UNCHANGED <<fn, args, encoding, temp_blob, temp_gcs_path, content,
                   utf8_content, job_config, store, calls, ncalls>>

\* Lines 121-123 and 147-148: the branch on needs_utf16_conversion.
CsvBranch ==
    /\ pc = "csv_branch"
    /\ IF needs_utf16_conversion(encoding)
       THEN IF ~args.storage_client
            THEN /\ Raise("ValueError", "check")
                 /\ UNCHANGED gcs_uri
            ELSE /\ pc' = "csv_download"
                 /\ UNCHANGED <<outcome, gcs_uri>>
       ELSE /\ gcs_uri' = GcsUri(args.gcs_path)
            /\ pc' = "csv_config"
            /\ UNCHANGED outcome
    /\ UNCHANGED <<fn, args, encoding, temp_blob, temp_gcs_path, content,
                   utf8_content, job_config, store, calls, ncalls>>

\* Lines 128-130: blob.download_as_bytes().
CsvDownload ==
    /\ pc = "csv_download"
    /\ \/ /\ store[args.gcs_path] # Absent
          /\ content' = store[args.gcs_path]
          /\ Record(Call("download", args.gcs_path, TRUE, "", NoConfig))
          /\ pc' = "csv_transcode"
          /\ UNCHANGED outcome
       \/ \E e \in RemoteErrors :
          /\ store[args.gcs_path] = Absent => e = "NotFound"
          /\ Record(Call("download", args.gcs_path, FALSE, e, NoConfig))
          /\ Raise(e, "download")
          /\ UNCHANGED content
    /\ UNCHANGED <<fn, args, encoding, temp_blob, temp_gcs_path, gcs_uri,
                   utf8_content, job_config, store, ncalls>>

\* Lines 133-134: content.decode('utf-16le').encode('utf-8').
CsvTranscode ==
    /\ pc = "csv_transcode"
    /\ LET d == DecodeUtf16le(content) IN
       IF d.ok
       THEN /\ utf8_content' = EncodeUtf8(d.text)
            /\ pc' = "csv_upload"
            /\ UNCHANGED outcome
       ELSE /\ Raise("UnicodeDecodeError", "decode")
            /\ UNCHANGED utf8_content
    /\ UNCHANGED <<fn, args, encoding, temp_blob, temp_gcs_path, gcs_uri,
                   content, job_config, store, calls, ncalls>>

\* The upload's error caught and ignored: the load goes on.
CsvUpload_Swallow ==
    /\ pc = "csv_upload"
    /\ temp_gcs_path' = Some(TempPath(args.gcs_path))
    /\ temp_blob' = Some(temp_gcs_path'.val)
    /\ \/ /\ store' = [store EXCEPT ![temp_blob'.val] = utf8_content]
          /\ Record(Call("upload", temp_blob'.val, TRUE, "", NoConfig))
       \/ \E e \in RemoteErrors :
          /\ Record(Call("upload", temp_blob'.val, FALSE, e, NoConfig))
          /\ UNCHANGED store
    /\ gcs_uri' = GcsUri(temp_gcs_path'.val)
    /\ encoding' = Some(Str_utf_8)
    /\ pc' = "csv_config"
    /\ UNCHANGED <<fn, args, content, utf8_content, job_config, outcome,
                   ncalls>>

\* Lines 137-146: upload of the converted copy, then the rebinding of
\* gcs_uri and encoding.
CsvUpload ==
    /\ pc = "csv_upload"
    /\ temp_gcs_path' = Some(TempPath(args.gcs_path))
    /\ temp_blob' = Some(temp_gcs_path'.val)
    /\ \/ /\ store' = [store EXCEPT ![temp_blob'.val] = utf8_content]
          /\ Record(Call("upload", temp_blob'.val, TRUE, "", NoConfig))
          /\ gcs_uri' = GcsUri(temp_gcs_path'.val)
          /\ encoding' = Some(Str_utf_8)
          /\ pc' = "csv_config"
          /\ UNCHANGED outcome
       \/ \E e \in RemoteErrors :
          /\ Record(Call("upload", temp_blob'.val, FALSE, e, NoConfig))
          /\ Raise(e, "upload")
          /\ UNCHANGED <<store, gcs_uri, encoding>>
    /\ UNCHANGED <<fn, args, content, utf8_content, job_config, ncalls>>

\* Lines 152-186: the load configuration.
CsvConfig ==
    /\ pc = "csv_config"
    /\ job_config' =
          [source_format |-> "CSV",
           write_disposition |-> args.write_disposition,
           skip_leading_rows |-> args.skip_leading_rows,
           encoding |-> ConfigEncoding(encoding),
           field_delimiter |-> ConfigDelimiter(args.sep),
           date_format |-> ConfigFormat(args.date_format),
           datetime_format |-> ConfigFormat(args.datetime_format),
           schema |-> args.schema,
           autodetect |-> ~args.schema]
    /\ pc' = "csv_submit"
    /\ UNCHANGED <<fn, args, encoding, temp_blob, temp_gcs_path, gcs_uri,
                   content, utf8_content, store, calls, outcome, ncalls>>

\* Line 188: bq_client.load_table_from_uri(gcs_uri, table_id, job_config).
CsvSubmit ==
    /\ pc = "csv_submit"
    /\ \/ /\ Record(Call("submit", gcs_uri, TRUE, "", job_config))
          /\ pc' = "csv_wait"
          /\ UNCHANGED outcome
       \/ \E e \in RemoteErrors :
          /\ Record(Call("submit", gcs_uri, FALSE, e, job_config))
          /\ Raise(e, "submit")
    /\ UNCHANGED <<fn, args, locals, store, ncalls>>

\* The wait's error caught and ignored: the table is fetched all the same.
CsvWait_Swallow ==
    /\ pc = "csv_wait"
    /\ \/ Record(Call("wait", gcs_uri, TRUE, "", NoConfig))
       \/ \E e \in RemoteErrors :
             Record(Call("wait", gcs_uri, FALSE, e, NoConfig))
    /\ pc' = "csv_get_table"
    /\ UNCHANGED <<fn, args, locals, store, outcome, ncalls>>

\* Line 189: load_job.result().
CsvWait ==
    /\ pc = "csv_wait"
    /\ \/ /\ Record(Call("wait", gcs_uri, TRUE, "", NoConfig))
          /\ pc' = "csv_get_table"
          /\ UNCHANGED outcome
       \/ \E e \in RemoteErrors :
          /\ Record(Call("wait", gcs_uri, FALSE, e, NoConfig))
          /\ Raise(e, "wait")
    /\ UNCHANGED <<fn, args, locals, store, ncalls>>

\* Lines 191-193: bq_client.get_table(table_id).
CsvGetTable ==
    /\ pc = "csv_get_table"
    /\ \/ /\ Record(Call("get_table", table_id, TRUE, "", NoConfig))
          /\ pc' = "csv_cleanup"
          /\ UNCHANGED outcome
       \/ \E e \in RemoteErrors :
          /\ Record(Call("get_table", table_id, FALSE, e, NoConfig))
          /\ Raise(e, "get_table")
    /\ UNCHANGED <<fn, args, locals, store, ncalls>>

\* The delete made outside any try/except: its error ends the call.
CsvCleanup_Propagate ==
    /\ pc = "csv_cleanup"
    /\ IF CleanupNeeded
       THEN \/ /\ store' = [store EXCEPT ![temp_blob.val] = Absent]
               /\ Record(Call("delete", temp_blob.val, TRUE, "", NoConfig))
               /\ pc' = "csv_return"
               /\ UNCHANGED outcome
            \/ \E e \in RemoteErrors :
               /\ Record(Call("delete", temp_blob.val, FALSE, e, NoConfig))
               /\ Raise(e, "delete")
               /\ UNCHANGED store
       ELSE /\ pc' = "csv_return"
            /\ UNCHANGED <<store, calls, outcome>>
    /\ UNCHANGED <<fn, args, locals, ncalls>>

\* The delete tried again after a failure.
CsvCleanup_Retry ==
    /\ pc = "csv_cleanup"
    /\ IF CleanupNeeded
       THEN \/ /\ store' = [store EXCEPT ![temp_blob.val] = Absent]
               /\ Record(Call("delete", temp_blob.val, TRUE, "", NoConfig))
               /\ pc' = "csv_return"
            \/ \E e \in RemoteErrors :
               /\ Record(Call("delete", temp_blob.val, FALSE, e, NoConfig))
               /\ pc' = IF \E i \in DOMAIN calls : calls[i].op = "delete"
                        THEN "csv_return"
                        ELSE "csv_cleanup"
               /\ UNCHANGED store
       ELSE /\ pc' = "csv_return"
            /\ UNCHANGED <<store, calls>>
    /\ UNCHANGED <<fn, args, locals, outcome, ncalls>>

\* Lines 196-201: temp_blob.delete() inside try/except Exception.
CsvCleanup ==
    /\ pc = "csv_cleanup"
    /\ IF CleanupNeeded
       THEN \/ /\ store' = [store EXCEPT ![temp_blob.val] = Absent]
               /\ Record(Call("delete", temp_blob.val, TRUE, "", NoConfig))
            \/ \E e \in RemoteErrors :
               /\ Record(Call("delete", temp_blob.val, FALSE, e, NoConfig))
               /\ UNCHANGED store
       ELSE UNCHANGED <<store, calls>>
    /\ pc' = "csv_return"
    /\ UNCHANGED <<fn, args, locals, outcome, ncalls>>

\* Line 203: return table_id.
CsvReturn ==
    /\ pc = "csv_return"
    /\ pc' = "returned"
    /\ outcome' = Returned(table_id)
    /\ UNCHANGED <<fn, args, locals, store, calls, ncalls>>

-----------------------------------------------------------------------------
(* load_parquet_from_gcs *)

\* The caller calls load_parquet_from_gcs; lines 44-57.
CallParquet ==
    /\ pc \in {"idle", "returned", "raised"}
    /\ ncalls < MaxCalls
    /\ \E p \in Paths, o \in ParquetOptions :
          args' = [NoArgs EXCEPT !.gcs_path = p, !.schema = o.schema,
                                 !.write_disposition = o.write_disposition]
    /\ fn' = "parquet"
    /\ encoding' = None
    /\ temp_blob' = None
    /\ temp_gcs_path' = None
    /\ gcs_uri' = GcsUri(args'.gcs_path)
    /\ content' = <<>>
    /\ utf8_content' = <<>>
    /\ job_config' = [NoConfig EXCEPT !.source_format = "PARQUET",
                         !.write_disposition = args'.write_disposition,
                         !.schema = args'.schema,
                         !.autodetect = ~args'.schema]
    /\ calls' = <<>>
    /\ outcome' = Running
    /\ ncalls' = ncalls + 1
    /\ pc' = "pq_submit"
    /\ UNCHANGED store

\* Line 59: bq_client.load_table_from_uri(gcs_uri, table_id, job_config).
ParquetSubmit ==
    /\ pc = "pq_submit"
    /\ \/ /\ Record(Call("submit", gcs_uri, TRUE, "", job_config))
          /\ pc' = "pq_wait"
          /\ UNCHANGED outcome
       \/ \E e \in RemoteErrors :
          /\ Record(Call("submit", gcs_uri, FALSE, e, job_config))
          /\ Raise(e, "submit")
    /\ UNCHANGED <<fn, args, locals, store, ncalls>>

\* Line 60: load_job.result().
ParquetWait ==
    /\ pc = "pq_wait"
    /\ \/ /\ Record(Call("wait", gcs_uri, TRUE, "", NoConfig))
          /\ pc' = "pq_get_table"
          /\ UNCHANGED outcome
       \/ \E e \in RemoteErrors :
          /\ Record(Call("wait", gcs_uri, FALSE, e, NoConfig))
          /\ Raise(e, "wait")
    /\ UNCHANGED <<fn, args, locals, store, ncalls>>

\* Lines 62-66: bq_client.get_table(table_id).
ParquetGetTable ==
    /\ pc = "pq_get_table"
    /\ \/ /\ Record(Call("get_table", table_id, TRUE, "", NoConfig))
          /\ pc' = "pq_return"
          /\ UNCHANGED outcome
       \/ \E e \in RemoteErrors :
          /\ Record(Call("get_table", table_id, FALSE, e, NoConfig))
          /\ Raise(e, "get_table")
    /\ UNCHANGED <<fn, args, locals, store, ncalls>>

\* Line 68: return table_id.
ParquetReturn ==
    /\ pc = "pq_return"
    /\ pc' = "returned"
    /\ outcome' = Returned(table_id)
    /\ UNCHANGED <<fn, args, locals, store, calls, ncalls>>

-----------------------------------------------------------------------------

Next ==
    \/ CallCsv
    \/ CsvBranch
    \/ CsvDownload
    \/ CsvTranscode
    \/ CsvUpload
    \/ CsvConfig
    \/ CsvSubmit
    \/ CsvWait
    \/ CsvGetTable
    \/ CsvCleanup
    \/ CsvReturn
    \/ CallParquet
    \/ ParquetSubmit
    \/ ParquetWait
    \/ ParquetGetTable
    \/ ParquetReturn

Spec == Init /\ [][Next]_vars

-----------------------------------------------------------------------------
(* Vocabulary of the properties. *)

\* Positions in `calls` of the operations named o.
OpIdx(o) == {i \in DOMAIN calls : calls[i].op = o}

OkIdx(o) == {i \in OpIdx(o) : calls[i].ok}

Finished == pc \in {"returned", "raised"}

StoreOps == {"download", "upload", "delete"}

WarehouseOps == {"submit", "wait", "get_table"}

\* The object name and URI the documentation gives, written out.
ExpectedTemp == args.gcs_path \o <<".utf8">>

ExpectedUri == <<"gs://", "bucket", "/">> \o args.gcs_path

ExpectedTempUri == <<"gs://", "bucket", "/">> \o args.gcs_path \o <<".utf8">>

ExpectedTableId == <<"proj", ".", "ds", ".", "t">>

\* The requested encoding lower-cases to one of the UTF-16LE spellings.
RequestedUtf16le ==
    /\ args.encoding.some
    /\ Lower(args.encoding.val) \in {Str_utf_16le, Str_utf_16_le}

-----------------------------------------------------------------------------
\* C1: whenever the temporary object was uploaded and the job wait has
\* finished (successfully or by raising), the finished call has attempted the
\* deletion of the temporary object exactly once, after the wait.
C1_DeleteOnceAfterWait ==
    (fn = "csv" /\ Finished /\ OkIdx("upload") # {} /\ OpIdx("wait") # {})
        => /\ Cardinality(OpIdx("delete")) = 1
           /\ \A d \in OpIdx("delete"), w \in OpIdx("wait") : w < d

-----------------------------------------------------------------------------
\* C2: with an encoding that lower-cases to utf-16le / utf-16-le and no
\* storage client, no remote operation is ever performed and the call, once
\* past the check, has raised ValueError.
C2_NoClientFailsFirst ==
    (fn = "csv" /\ RequestedUtf16le /\ ~args.storage_client)
        => /\ calls = <<>>
           /\ pc # "csv_branch" => outcome = Raised("ValueError", "check")

C2_Witness ==
    /\ fn = "csv" /\ RequestedUtf16le /\ ~args.storage_client
    /\ args.encoding = Some(Str_UTF_16LE)
    /\ outcome = Raised("ValueError", "check")

-----------------------------------------------------------------------------
\* C3: with encoding utf-16le, UTF-16LE or utf-16-le and a storage client,
\* every submitted job reads gs://<bucket>/<gcs_path>.utf8 and its
\* configuration carries the encoding UTF_8.
C3_ConvertedLoadUsesCopy ==
    (/\ fn = "csv"
     /\ args.storage_client
     /\ args.encoding \in {Some(Str_utf_16le), Some(Str_UTF_16LE),
                           Some(Str_utf_16_le)})
        => \A i \in OpIdx("submit") :
              /\ calls[i].target = ExpectedTempUri
              /\ calls[i].target # ExpectedUri
              /\ calls[i].config.encoding = "UTF_8"

C3_Witness ==
    /\ fn = "csv"
    /\ args.storage_client
    /\ args.encoding = Some(Str_UTF_16LE)
    /\ OkIdx("submit") # {}

-----------------------------------------------------------------------------
\* C4: with encoding absent, utf8, UTF8, iso-8859-1 or ISO_8859_1 the call
\* performs no object-store operation and every submitted job reads
\* gs://<bucket>/<gcs_path>.
C4_NoTemporaryObject ==
    (/\ fn = "csv"
     /\ args.encoding \in {None, Some(Str_utf8), Some(Str_UTF8),
                           Some(Str_iso_8859_1), Some(Str_ISO_8859_1)})
        => /\ \A i \in DOMAIN calls : calls[i].op \notin StoreOps
           /\ \A i \in OpIdx("submit") : calls[i].target = ExpectedUri
           /\ ~temp_blob.some

C4_Witness ==
    /\ fn = "csv"
    /\ args.encoding = Some(Str_ISO_8859_1)
    /\ args.storage_client
    /\ pc = "returned"
    /\ OkIdx("submit") # {}

-----------------------------------------------------------------------------
\* C5: when the job wait raises, the call has failed with exactly the error
\* the wait raised, and no deletion was attempted; no deletion is ever
\* attempted before a wait has finished.
C5_WaitErrorPropagates ==
    fn = "csv" =>
        /\ \A w \in OpIdx("wait") :
              ~calls[w].ok =>
                  /\ outcome = Raised(calls[w].exc, "wait")
                  /\ OpIdx("delete") = {}
        /\ \A d \in OpIdx("delete") : \E w \in OpIdx("wait") : w < d

C5_Witness ==
    /\ fn = "csv"
    /\ OkIdx("upload") # {}
    /\ \E w \in OpIdx("wait") : ~calls[w].ok /\ calls[w].exc = "Forbidden"
    /\ pc = "raised"

-----------------------------------------------------------------------------
\* C6: when the job wait and the table fetch succeeded the finished call has
\* returned <project>.<dataset>.<table>, whether the delete succeeded or
\* raised; the error of a failed call is never the delete's.
C6_DeleteFailureIsHarmless ==
    fn = "csv" =>
        /\ (Finished /\ OkIdx("wait") # {} /\ OkIdx("get_table") # {})
              => outcome = Returned(ExpectedTableId)
        /\ outcome.kind = "raised" => outcome.raised_by # "delete"
        /\ (\E d \in OpIdx("delete") : ~calls[d].ok) => outcome.kind # "raised"

C6_Witness ==
    /\ fn = "csv"
    /\ pc = "returned"
    /\ \E d \in OpIdx("delete") : ~calls[d].ok
    /\ outcome = Returned(ExpectedTableId)

-----------------------------------------------------------------------------
\* The encoding field the claim C7 expects for the requested encoding.
C7_ClaimedEncoding ==
    IF /\ args.encoding.some
       /\ Lower(args.encoding.val) \in {Str_latin_1, Str_iso_8859_1}
    THEN "ISO_8859_1"
    ELSE "UTF_8"

-----------------------------------------------------------------------------
\* C8: when the download or the upload of the conversion fails, the call has
\* failed with that error and performs no warehouse operation.
C8_ConversionFailureAborts ==
    fn = "csv" =>
        \A i \in OpIdx("download") \cup OpIdx("upload") :
            ~calls[i].ok =>
                /\ outcome = Raised(calls[i].exc, calls[i].op)
                /\ \A j \in DOMAIN calls : calls[j].op \notin WarehouseOps
                /\ pc = "raised"

C8_Witness ==
    /\ fn = "csv"
    /\ OkIdx("download") # {}
    /\ \E i \in OpIdx("upload") : ~calls[i].ok
    /\ pc = "raised"

-----------------------------------------------------------------------------
OpOrder == <<"download", "upload", "submit", "wait", "get_table", "delete">>

Rank(o) == CHOOSE i \in DOMAIN OpOrder : OpOrder[i] = o

\* C9: the remote operations of one call occur in the order download,
\* upload, submit, wait, get_table, delete, none of them twice; an operation
\* follows only operations that succeeded; and when conversion applies the
\* job is submitted only after the upload succeeded.
C9_StrictSequence ==
    /\ \A i, j \in DOMAIN calls :
          i < j => /\ Rank(calls[i].op) < Rank(calls[j].op)
                   /\ calls[i].ok
    /\ (fn = "csv" /\ RequestedUtf16le /\ OpIdx("submit") # {})
          => \E u \in OkIdx("upload") : \A s \in OpIdx("submit") : u < s

C9_Witness ==
    /\ fn = "csv"
    /\ pc = "returned"
    /\ Len(calls) = Len(OpOrder)
    /\ \A i \in DOMAIN calls : calls[i].op = OpOrder[i]

-----------------------------------------------------------------------------
\* What the record of one call may hold about the object store.
C10_CallsFrame ==
    /\ fn = "csv" =>
          \A i \in DOMAIN calls :
              /\ calls[i].op \in {"upload", "delete"}
                    => calls[i].target = ExpectedTemp
              /\ calls[i].op = "download" => calls[i].target = args.gcs_path
    /\ fn = "parquet" => \A i \in DOMAIN calls : calls[i].op \notin StoreOps

\* What one step may change in the bucket.
C10_StoreFrame ==
    \A o \in Objects :
        store'[o] # store[o] =>
            /\ fn' = "csv"
            /\ o = args'.gcs_path \o <<".utf8">>
            /\ o # args'.gcs_path

\* C10: in load_csv_from_gcs the only object written or deleted is
\* <gcs_path>.utf8, the source object is only read, and
\* load_parquet_from_gcs performs no object-store operation.
C10_OnlyTempObjectTouched == [](C10_CallsFrame) /\ [][C10_StoreFrame]_vars

C10_Witness ==
    /\ fn = "csv"
    /\ args.gcs_path = PathF
    /\ OkIdx("delete") # {}
    /\ store[PathF] = BytesValid
    /\ store[ExpectedTemp] = Absent

====
